---- MODULE Spec2Model ----
(***************************************************************************)
(* Model of scripts/generate_skill_frame_data.py: the skill classifier,    *)
(* the phase calculator, the property-table lookups and the frame entry    *)
(* assembler.  Durations are kept in tenths of a second so that the float  *)
(* constants 0.2, 0.8 and 0.1 become the integers 2, 8 and 1; the ratios   *)
(* 0.39, 0.72, ... are kept in hundredths.  Property values (floats in the *)
(* source) are kept in tenths.                                             *)
(***************************************************************************)
EXTENDS Integers, Sequences, FiniteSets, TLC

VARIABLES skill, bullets, props, pc, err, cooldown_tick, state_time_tick, entry

vars == <<skill, bullets, props, pc, err, cooldown_tick, state_time_tick, entry>>

(***************************************************************************)
(* Bounds of the explored inputs.                                          *)
(***************************************************************************)
MaxFixedCount == 9
MaxWaitTicks == 6
MaxBulletId == 1
MaxBullets == 1
MaxLevel == 2

(***************************************************************************)
(* Program constants.                                                      *)
(***************************************************************************)
TICK_RATE == 18
MIN_ATK_DURATION == 2
MAX_ATK_DURATION == 8
ATK_SPEED_ADDITION == 1

Max(a, b) == IF a >= b THEN a ELSE b
Min(a, b) == IF a <= b THEN a ELSE b

\* math.ceil(a / b) for b > 0
CeilDiv(a, b) == -((-a) \div b)

\* math.ceil(d * TICK_RATE) for a duration d given in tenths of a second
CeilTicks(d) == CeilDiv(d * TICK_RATE, 10)

\* math.floor(T * r) for a ratio r given in hundredths
FloorRatio(T, r) == (T * r) \div 100

\* int(x) for a float x given in tenths: truncation toward zero
IntOf(x) == IF x >= 0 THEN x \div 10 ELSE -((-x) \div 10)

(***************************************************************************)
(* classify_skill                                                          *)
(***************************************************************************)
BulletMoveKindUnguarded(bs, id) == IF id \in DOMAIN bs THEN bs[id].move_kind ELSE 1

\* bullets.get(id, {}).get('move_kind', 0)
BulletMoveKind(bs, id) == IF id \in DOMAIN bs THEN bs[id].move_kind ELSE 0

classify_skill_unknown(s, bs) ==
    IF s.is_no_atk_speed_cd THEN "instant"
    ELSE IF s.fixed_attack_action_count > 1 THEN "multi_hit"
    ELSE IF s.is_melee /\ s.is_physical THEN "melee_physical"
    ELSE IF s.cast_action_id = 11
         THEN (IF s.is_physical THEN "ranged_physical_magic_cast" ELSE "magic")
    ELSE IF s.cast_action_id = 9
         THEN (IF s.is_melee THEN "melee_physical" ELSE "ranged_physical")
    ELSE IF s.bullet_id > 0
         THEN (IF BulletMoveKind(bs, s.bullet_id) > 0 THEN "ranged_physical" ELSE "magic")
    ELSE "unknown"

classify_skill(s, bs) ==
    IF s.is_no_atk_speed_cd THEN "instant"
    ELSE IF s.fixed_attack_action_count > 1 THEN "multi_hit"
    ELSE IF s.is_melee /\ s.is_physical THEN "melee_physical"
    ELSE IF s.cast_action_id = 11
         THEN (IF s.is_physical THEN "ranged_physical_magic_cast" ELSE "magic")
    ELSE IF s.cast_action_id = 9
         THEN (IF s.is_melee THEN "melee_physical" ELSE "ranged_physical")
    ELSE IF s.bullet_id > 0
         THEN (IF BulletMoveKind(bs, s.bullet_id) > 0 THEN "ranged_physical" ELSE "magic")
    ELSE "melee_physical"

(***************************************************************************)
(* calculate_phases                                                        *)
(***************************************************************************)
\* total_tick before the wait time is added
BaseTotalTick(skill_class) ==
    IF skill_class = "instant" THEN 6
    ELSE IF skill_class = "multi_hit" THEN CeilTicks(MAX_ATK_DURATION) + 2
    ELSE CeilTicks(MAX_ATK_DURATION + ATK_SPEED_ADDITION)

WaitTicksFloor(s) ==
    IF s.wait_time > 0 THEN s.wait_time \div TICK_RATE ELSE 0

\* wait_ticks
WaitTicks(s) ==
    IF s.wait_time > 0 THEN CeilDiv(s.wait_time, TICK_RATE) ELSE 0

TotalTick(s, skill_class) == BaseTotalTick(skill_class) + WaitTicks(s)

\* gcd
GlobalCooldown(s) ==
    IF s.is_no_atk_speed_cd THEN CeilTicks(MIN_ATK_DURATION) + 1
    ELSE CeilTicks(MIN_ATK_DURATION + ATK_SPEED_ADDITION)

Interval(s, e) == [start |-> s, end |-> e]
Tick(t) == [tick |-> t]

InstantPhasesFixedIdle(T) ==
    [cast_delay    |-> Interval(0, 1),
     damage        |-> Tick(2),
     hit_stop      |-> Interval(2, 3),
     recovery_lock |-> Interval(3, 4),
     combo_window  |-> Interval(4, 5),
     idle          |-> Tick(5)]

InstantPhases(T) ==
    [cast_delay    |-> Interval(0, 1),
     damage        |-> Tick(2),
     hit_stop      |-> Interval(2, 3),
     recovery_lock |-> Interval(3, 4),
     combo_window  |-> Interval(4, 5),
     idle          |-> Tick(T - 1)]

\* per_hit_ticks and cast_end of the multi_hit branch
PerHitTicks(T, n) == Max(2, (T - 2) \div n)
MultiHitCastEnd(T, n) == Max(1, PerHitTicks(T, n) \div 2 - 1)

DamageTicksEarlyStop(T, n) ==
    LET per_hit_ticks == PerHitTicks(T, n)
        cast_end == MultiHitCastEnd(T, n)
        all == [i \in 1..n |-> cast_end + 1 + (i - 1) * per_hit_ticks]
        kept == SelectSeq(all, LAMBDA t : t < T - 1)
    IN  IF kept = <<>> THEN <<cast_end + 1>> ELSE kept

\* damage_ticks of the multi_hit branch
DamageTicks(T, n) ==
    LET per_hit_ticks == PerHitTicks(T, n)
        cast_end == MultiHitCastEnd(T, n)
        all == [i \in 1..n |-> cast_end + 1 + (i - 1) * per_hit_ticks]
        kept == SelectSeq(all, LAMBDA t : t < T)
    IN  IF kept = <<>> THEN <<cast_end + 1>> ELSE kept

MultiHitPhases(s, T) ==
    LET fixed_count == s.fixed_attack_action_count
        per_hit_ticks == PerHitTicks(T, fixed_count)
        cast_end == MultiHitCastEnd(T, fixed_count)
        damage_ticks == DamageTicks(T, fixed_count)
        last_dmg == damage_ticks[Len(damage_ticks)]
        hs_end == Min(last_dmg + 1, T - 1)
        recovery_first == Min(hs_end + Max(2, (T - hs_end) \div 2), T - 3)
        recovery_end == IF recovery_first <= hs_end
                        THEN Min(hs_end + 2, T - 3) ELSE recovery_first
        combo_end == IF T - 2 <= recovery_end THEN recovery_end + 1 ELSE T - 2
    IN  [cast_delay    |-> Interval(0, cast_end),
         damage        |-> IF Len(damage_ticks) = 1
                           THEN Tick(damage_ticks[1])
                           ELSE [ticks |-> damage_ticks, interval |-> per_hit_ticks],
         hit_stop      |-> Interval(last_dmg, hs_end),
         recovery_lock |-> Interval(hs_end, recovery_end),
         combo_window  |-> Interval(recovery_end + 1, combo_end),
         idle          |-> Tick(T - 1)]

MeleePhasesLateHitStop(T, wait_ticks) ==
    LET cast_end == Max(1, FloorRatio(T, 39))
        dmg_tick == cast_end + 1
        hs_end == dmg_tick + 1
        recovery_end == Max(hs_end + 1, FloorRatio(T, 72))
        combo_start == recovery_end + 1
        combo_end == T - 2
    IN  [cast_delay    |-> Interval(0, cast_end + wait_ticks),
         damage        |-> Tick(dmg_tick + wait_ticks),
         hit_stop      |-> Interval(dmg_tick + 1 + wait_ticks, hs_end + wait_ticks),
         recovery_lock |-> Interval(hs_end + wait_ticks, recovery_end + wait_ticks),
         combo_window  |-> IF combo_start + wait_ticks <= combo_end + wait_ticks
                              /\ combo_end + wait_ticks < T - 1
                           THEN Interval(combo_start + wait_ticks, combo_end + wait_ticks)
                           ELSE Interval(T - 3, T - 2),
         idle          |-> Tick(T - 1)]

MeleePhases(T, wait_ticks) ==
    LET cast_end == Max(1, FloorRatio(T, 39))
        dmg_tick == cast_end + 1
        hs_end == dmg_tick + 1
        recovery_end == Max(hs_end + 1, FloorRatio(T, 72))
        combo_start == recovery_end + 1
        combo_end == T - 2
    IN  [cast_delay    |-> Interval(IF wait_ticks > 0 THEN 0 ELSE 0 + wait_ticks,
                                    cast_end + wait_ticks),
         damage        |-> Tick(dmg_tick + wait_ticks),
         hit_stop      |-> Interval(dmg_tick + wait_ticks, hs_end + wait_ticks),
         recovery_lock |-> Interval(hs_end + wait_ticks, recovery_end + wait_ticks),
         combo_window  |-> IF combo_start + wait_ticks <= combo_end + wait_ticks
                              /\ combo_end + wait_ticks < T - 1
                           THEN Interval(combo_start + wait_ticks, combo_end + wait_ticks)
                           ELSE Interval(T - 3, T - 2),
         idle          |-> Tick(T - 1)]

\* the projectile block of the ranged branch; bullets.get(bullet_id, {}) is
\* looked up whatever the sign of bullet_id
Projectile(s, bs, dmg_tick) ==
    LET id == s.bullet_id
    IN  IF id \in DOMAIN bs /\ bs[id].life_time > 0
        THEN LET base == [launch_tick |-> dmg_tick, life_time |-> bs[id].life_time]
             IN  IF bs[id].damage_interval > 0
                 THEN <<TRUE, [launch_tick     |-> dmg_tick,
                               life_time       |-> bs[id].life_time,
                               damage_interval |-> bs[id].damage_interval]>>
                 ELSE <<TRUE, base>>
        ELSE <<FALSE, [launch_tick |-> 0, life_time |-> 0]>>

RangedPhases(s, bs, T) ==
    LET cast_end == Max(1, FloorRatio(T, 33))
        dmg_tick == cast_end + 1
        recovery_end == Max(dmg_tick + 2, FloorRatio(T, 67))
        combo_start == recovery_end + 1
        combo_end == T - 2
        proj == Projectile(s, bs, dmg_tick)
    IN  IF proj[1]
        THEN [cast_delay    |-> Interval(0, cast_end),
              damage        |-> Tick(dmg_tick),
              projectile    |-> proj[2],
              recovery_lock |-> Interval(dmg_tick + 1, recovery_end),
              combo_window  |-> Interval(combo_start, combo_end),
              idle          |-> Tick(T - 1)]
        ELSE [cast_delay    |-> Interval(0, cast_end),
              damage        |-> Tick(dmg_tick),
              recovery_lock |-> Interval(dmg_tick + 1, recovery_end),
              combo_window  |-> Interval(combo_start, combo_end),
              idle          |-> Tick(T - 1)]

MagicPhases(T) ==
    LET cast_end == Max(1, FloorRatio(T, 44))
        dmg_tick == cast_end + 1
        hs_end == dmg_tick + 1
        recovery_end == Max(hs_end + 1, FloorRatio(T, 78))
        combo_start == recovery_end + 1
        combo_end == T - 2
    IN  [cast_delay    |-> Interval(0, cast_end),
         damage        |-> Tick(dmg_tick),
         hit_stop      |-> Interval(dmg_tick, hs_end),
         recovery_lock |-> Interval(hs_end, recovery_end),
         combo_window  |-> Interval(combo_start, combo_end),
         idle          |-> Tick(T - 1)]

NoPhases == [p \in {} |-> Tick(0)]

calculate_phases(s, bs, skill_class) ==
    LET T == TotalTick(s, skill_class)
        wait_ticks == WaitTicks(s)
    IN  [total_tick |-> T,
         gcd        |-> GlobalCooldown(s),
         phases     |->
            IF skill_class = "instant" THEN InstantPhases(T)
            ELSE IF skill_class = "multi_hit" THEN MultiHitPhases(s, T)
            ELSE IF skill_class = "melee_physical" THEN MeleePhases(T, wait_ticks)
            ELSE IF skill_class \in {"ranged_physical", "ranged_physical_magic_cast"}
                 THEN RangedPhases(s, bs, T)
            ELSE IF skill_class = "magic" THEN MagicPhases(T)
            ELSE NoPhases]

(***************************************************************************)
(* get_cooldown_ticks / get_state_time_ticks                               *)
(***************************************************************************)
Return(v) == [raised |-> FALSE, value |-> v]
Raised == [raised |-> TRUE, value |-> 0]

\* prop_name + '_1'
Suffix1(name) ==
    IF name = "k" THEN "k_1"
    ELSE IF name = "k_1" THEN "k_1_1"
    ELSE "_1"

LowestLevel(levels) == CHOOSE l \in DOMAIN levels : \A m \in DOMAIN levels : l <= m

LevelOneOrLowestGuarded(levels) ==
    IF DOMAIN levels = {} THEN Return(0)
    ELSE Return(IntOf(IF 1 \in DOMAIN levels THEN levels[1]
                      ELSE levels[LowestLevel(levels)]))

\* int(levels.get(1, levels.get(min(levels.keys()), 0))): the default argument
\* is evaluated first, and min() of an empty sequence raises ValueError
LevelOneOrLowest(levels) ==
    IF DOMAIN levels = {} THEN Raised
    ELSE Return(IntOf(IF 1 \in DOMAIN levels THEN levels[1]
                      ELSE levels[LowestLevel(levels)]))

\* the candidate loop shared by both lookups
SymbolTicks(ps, prop_name, sym) ==
    LET first == prop_name
        second == Suffix1(prop_name)
        Holds(c) == c \in DOMAIN ps /\ sym \in DOMAIN ps[c]
    IN  IF Holds(first) THEN LevelOneOrLowest(ps[first][sym])
        ELSE IF Holds(second) THEN LevelOneOrLowest(ps[second][sym])
        ELSE Return(0)

get_cooldown_ticks(ps, prop_name) == SymbolTicks(ps, prop_name, "skill_mintimepercast_v")

get_state_time_ticks(ps, prop_name) == SymbolTicks(ps, prop_name, "skill_statetime")

(***************************************************************************)
(* generate_skill_frame_data                                               *)
(***************************************************************************)
NoFields == [f \in {} |-> 0]
NoEntry == NoFields

EntryOf(s, bs, cooldown, state_time) ==
    LET skill_class == classify_skill(s, bs)
        r == calculate_phases(s, bs, skill_class)
        base == [total_tick           |-> r.total_tick,
                 cooldown_tick        |-> cooldown,
                 global_cooldown_tick |-> r.gcd,
                 phases               |-> r.phases,
                 type                 |-> skill_class]
        bullet == IF s.bullet_id > 0 /\ s.bullet_id \in DOMAIN bs
                  THEN "bullet" :> bs[s.bullet_id] ELSE NoFields
        fixed == IF s.fixed_attack_action_count > 1
                 THEN "fixed_attack_count" :> s.fixed_attack_action_count ELSE NoFields
        state == IF state_time > 0
                 THEN "state_duration_tick" :> state_time ELSE NoFields
    IN  base @@ bullet @@ fixed @@ state

(***************************************************************************)
(* Inputs                                                                  *)
(***************************************************************************)
CastActionIds == {0, 9, 11}
BulletIds == 0..MaxBulletId
SkillBulletIds == -1..(MaxBulletId + 1)
FixedCounts == -1..MaxFixedCount
WaitTimes == {-1, 0} \cup {t \in 1..(TICK_RATE * MaxWaitTicks + 1) : t % TICK_RATE \in {0, 1}}
Levels == 0..MaxLevel
Symbols == {"skill_mintimepercast_v", "skill_statetime"}
PropKeys == {"k", "k_1"}

Skills(names) ==
    [is_no_atk_speed_cd        : BOOLEAN,
     fixed_attack_action_count : FixedCounts,
     is_melee                  : BOOLEAN,
     is_physical               : BOOLEAN,
     cast_action_id            : CastActionIds,
     bullet_id                 : SkillBulletIds,
     wait_time                 : WaitTimes,
     properties                : names]

\* parse_skill_data's defaults
DefaultSkill(name) ==
    [is_no_atk_speed_cd        |-> FALSE,
     fixed_attack_action_count |-> -1,
     is_melee                  |-> FALSE,
     is_physical               |-> FALSE,
     cast_action_id            |-> 0,
     bullet_id                 |-> 0,
     wait_time                 |-> 0,
     properties                |-> name]

BulletRecords == [move_kind : {0, 1}, life_time : {0, 40}, damage_interval : {0, 5}]
BulletTables ==
    UNION {[K -> BulletRecords] : K \in {B \in SUBSET BulletIds : Cardinality(B) <= MaxBullets}}

\* the value (in tenths) stored for a key, symbol and level: all distinct,
\* none a whole number
LevelValue(c, sym, l) ==
    (IF c = "k" THEN 0 ELSE 1000) + (IF sym = "skill_statetime" THEN 100 ELSE 0)
    + 10 * l + 15

\* which levels each present symbol holds
Presence == UNION {[S -> SUBSET Levels] : S \in SUBSET Symbols}

TableOf(g) ==
    [c \in DOMAIN g |->
        [sym \in DOMAIN g[c] |-> [l \in g[c][sym] |-> LevelValue(c, sym, l)]]]

PropTables == UNION {{TableOf(g) : g \in [K -> Presence]} : K \in SUBSET PropKeys}
EmptyProps == [c \in {} |-> NoFields]

(***************************************************************************)
(* State machine                                                           *)
(***************************************************************************)
InitLocals ==
    /\ pc = "start"
    /\ err = "none"
    /\ cooldown_tick = 0
    /\ state_time_tick = 0
    /\ entry = NoEntry

\* every skill record over every bullet table
Init ==
    /\ skill \in Skills({"k"})
    /\ bullets \in BulletTables
    /\ props = EmptyProps
    /\ InitLocals

\* every property table under one skill record
InitLookup ==
    /\ skill \in {DefaultSkill(name) : name \in {"empty", "k", "k_1"}}
    /\ bullets = [b \in {} |-> NoFields]
    /\ props \in PropTables
    /\ InitLocals

GenerateSkillFrameData ==
    /\ pc = "start"
    /\ LET prop_name == IF skill.properties = "empty" THEN "" ELSE skill.properties
           cd == IF prop_name /= "" THEN get_cooldown_ticks(props, prop_name) ELSE Return(0)
           st == IF prop_name /= "" THEN get_state_time_ticks(props, prop_name) ELSE Return(0)
       IN  IF cd.raised
           THEN /\ pc' = "raised"
                /\ err' = "ValueError"
                /\ UNCHANGED <<cooldown_tick, state_time_tick, entry>>
           ELSE IF st.raised
           THEN /\ pc' = "raised"
                /\ err' = "ValueError"
                /\ cooldown_tick' = cd.value
                /\ UNCHANGED <<state_time_tick, entry>>
           ELSE /\ pc' = "done"
                /\ cooldown_tick' = cd.value
                /\ state_time_tick' = st.value
                /\ entry' = EntryOf(skill, bullets, cd.value, st.value)
                /\ UNCHANGED err
    /\ UNCHANGED <<skill, bullets, props>>

Next == GenerateSkillFrameData

Spec == Init /\ [][Next]_vars

SpecLookup == InitLookup /\ [][Next]_vars

(***************************************************************************)
(* Properties                                                              *)
(***************************************************************************)
Done == pc = "done"
Phases == entry.phases
T_ == entry.total_tick
Has(phase) == phase \in DOMAIN entry.phases

\* ceil(wait_time / 18) for a positive wait time, 0 otherwise
ExpectedWait == IF skill.wait_time > 0 THEN (skill.wait_time + 17) \div 18 ELSE 0

\* every tick index and interval endpoint of one phase value
TicksOf(v) ==
    (IF "tick" \in DOMAIN v THEN {v.tick} ELSE {})
    \cup (IF "ticks" \in DOMAIN v THEN {v.ticks[i] : i \in 1..Len(v.ticks)} ELSE {})
    \cup (IF "start" \in DOMAIN v THEN {v.start, v.end} ELSE {})
    \cup (IF "launch_tick" \in DOMAIN v THEN {v.launch_tick} ELSE {})

AllTicks == UNION {TicksOf(Phases[p]) : p \in DOMAIN Phases}

FiveTags == {"instant", "multi_hit", "melee_physical", "ranged_physical", "magic"}
RangedTags == {"ranged_physical", "ranged_physical_magic_cast"}

\* C1: every tick index and interval endpoint of a produced timeline lies in
\* [0, total_tick - 1], and idle.tick = total_tick - 1.
C1_PhaseBounds ==
    Done => /\ \A t \in AllTicks : 0 <= t /\ t <= T_ - 1
            /\ Phases.idle.tick = T_ - 1

\* C2 as stated: the tag written to the entry is one of the five tags.
C2_FiveTags == Done => entry.type \in FiveTags

\* C2 amended: the tag is one of six, the five tags and
\* ranged_physical_magic_cast, which is produced exactly for a skill that is
\* not instant, not multi-hit, physical but not melee, with cast action 11.
C2_SixTags ==
    Done => /\ entry.type \in FiveTags \cup {"ranged_physical_magic_cast"}
            /\ entry.type = "ranged_physical_magic_cast"
               <=> /\ ~skill.is_no_atk_speed_cd
                   /\ skill.fixed_attack_action_count <= 1
                   /\ skill.is_physical /\ ~skill.is_melee
                   /\ skill.cast_action_id = 11

C2_Witness == Done /\ entry.type = "ranged_physical_magic_cast"

\* C3: for melee_physical, ranged_physical and magic timelines,
\* cast_delay.end < damage.tick < recovery_lock.start <= recovery_lock.end
\* < combo_window.start <= combo_window.end < idle.tick.
C3_MonotonicOrdering ==
    (Done /\ entry.type \in {"melee_physical", "magic"} \cup RangedTags)
    => /\ Phases.cast_delay.end < Phases.damage.tick
       /\ Phases.damage.tick < Phases.recovery_lock.start
       /\ Phases.recovery_lock.start <= Phases.recovery_lock.end
       /\ Phases.recovery_lock.end < Phases.combo_window.start
       /\ Phases.combo_window.start <= Phases.combo_window.end
       /\ Phases.combo_window.end < Phases.idle.tick

\* C4 as stated: hit_stop lies strictly between the damage tick and the
\* recovery lock.
C4_HitStopStrict ==
    (Done /\ entry.type \in {"melee_physical", "magic"})
    => /\ Phases.damage.tick < Phases.hit_stop.start
       /\ Phases.hit_stop.end < Phases.recovery_lock.start

\* C4 amended: hit_stop starts at the damage tick and ends where the recovery
\* lock starts: damage.tick = hit_stop.start < hit_stop.end = recovery_lock.start.
C4_HitStopAdjacent ==
    (Done /\ entry.type \in {"melee_physical", "magic"})
    => /\ Phases.damage.tick = Phases.hit_stop.start
       /\ Phases.hit_stop.start < Phases.hit_stop.end
       /\ Phases.hit_stop.end = Phases.recovery_lock.start

C4_Witness ==
    /\ Done /\ entry.type = "melee_physical" /\ skill.wait_time > 0
    /\ Has("hit_stop") /\ Phases.hit_stop.start > 0

\* C5 as stated: a skill with the no-attack-speed-cooldown flag is instant
\* with total_tick 6, damage tick 2 and idle tick 5, whatever its wait time.
C5_InstantFixed ==
    (Done /\ skill.is_no_atk_speed_cd)
    => /\ entry.type = "instant"
       /\ T_ = 6
       /\ Phases.damage = [tick |-> 2]
       /\ Phases.idle = [tick |-> 5]

\* C5 amended: such a skill is instant with damage tick 2, total_tick
\* 6 + wait_ticks and idle tick total_tick - 1 (so 6 and 5 when wait_time <= 0).
C5_InstantWithWait ==
    (Done /\ skill.is_no_atk_speed_cd)
    => /\ entry.type = "instant"
       /\ T_ = 6 + ExpectedWait
       /\ Phases.damage = [tick |-> 2]
       /\ Phases.idle = [tick |-> 5 + ExpectedWait]
       /\ skill.wait_time <= 0 => (T_ = 6 /\ Phases.idle = [tick |-> 5])

C5_Witness ==
    /\ Done /\ skill.is_no_atk_speed_cd /\ skill.wait_time > 0
    /\ skill.fixed_attack_action_count > 1 /\ T_ > 6

\* the number of damage ticks of the produced timeline
DamageCount ==
    IF "ticks" \in DOMAIN Phases.damage THEN Len(Phases.damage.ticks) ELSE 1

\* C6 as stated: a multi_hit timeline has min(n, floor((T-2)/per_hit_ticks))
\* damage ticks, at least 1.
C6_TickCountFormula ==
    (Done /\ entry.type = "multi_hit")
    => LET n == skill.fixed_attack_action_count
           per_hit_ticks == Max(2, (T_ - 2) \div n)
       IN  /\ DamageCount = Min(n, (T_ - 2) \div per_hit_ticks)
           /\ DamageCount >= 1

\* C6 amended: a multi_hit timeline has min(n, ceil((T - 1 - cast_end) /
\* per_hit_ticks)) damage ticks, the ticks cast_end + 1 + i * per_hit_ticks
\* that are below T, and at least 1.
C6_TickCountBelowT ==
    (Done /\ entry.type = "multi_hit")
    => LET n == skill.fixed_attack_action_count
           per_hit_ticks == Max(2, (T_ - 2) \div n)
           cast_end == Phases.cast_delay.end
           below == {i \in 0..(n - 1) : cast_end + 1 + i * per_hit_ticks < T_}
       IN  /\ DamageCount = Min(n, (T_ - 1 - cast_end + per_hit_ticks - 1) \div per_hit_ticks)
           /\ DamageCount = Cardinality(below)
           /\ DamageCount >= 1

C6_Witness ==
    /\ Done /\ entry.type = "multi_hit"
    /\ DamageCount > 1
    /\ DamageCount < skill.fixed_attack_action_count

\* the skill matches none of the classifier's rules 1-5
FallsThrough ==
    /\ ~skill.is_no_atk_speed_cd
    /\ skill.fixed_attack_action_count <= 1
    /\ ~(skill.is_melee /\ skill.is_physical)
    /\ skill.cast_action_id \notin {9, 11}

BulletResolves == skill.bullet_id \in DOMAIN bullets

\* C7: a skill matching none of rules 1-5 is ranged_physical exactly when
\* bullet_id > 0 and the bullet is in the table with move_kind > 0, magic when
\* bullet_id > 0 and the bullet is missing or has move_kind <= 0, and
\* melee_physical when bullet_id <= 0.
C7_BulletFallthrough ==
    (Done /\ FallsThrough)
    => LET moving == BulletResolves /\ bullets[skill.bullet_id].move_kind > 0
       IN  /\ entry.type = "ranged_physical" <=> (skill.bullet_id > 0 /\ moving)
           /\ (skill.bullet_id > 0 /\ ~moving) => entry.type = "magic"
           /\ skill.bullet_id <= 0 => entry.type = "melee_physical"

C7_Witness ==
    /\ Done /\ FallsThrough /\ skill.bullet_id > 0 /\ ~BulletResolves
    /\ entry.type = "magic"

\* C8: the timeline has a projectile block exactly when the class is
\* ranged_physical (either variant) and bullet_id > 0 resolves to a bullet
\* with life_time > 0; then launch_tick = damage.tick and damage_interval is
\* included only when the bullet's damage_interval > 0.
C8_ProjectileBlock ==
    Done =>
       /\ Has("projectile")
          <=> /\ entry.type \in RangedTags
              /\ skill.bullet_id > 0
              /\ BulletResolves /\ bullets[skill.bullet_id].life_time > 0
       /\ Has("projectile")
          => /\ Phases.projectile.launch_tick = Phases.damage.tick
             /\ "damage_interval" \in DOMAIN Phases.projectile
                <=> bullets[skill.bullet_id].damage_interval > 0

\* C9: total_tick = base + wait_ticks with base 6 for instant and 17 for
\* every other class, wait_ticks = ceil(wait_time / 18) for wait_time > 0 and
\* 0 otherwise; total_tick >= 6.
C9_TotalTick ==
    Done => /\ T_ = (IF entry.type = "instant" THEN 6 ELSE 17) + ExpectedWait
            /\ T_ >= 6

C9_Witness ==
    /\ Done /\ entry.type = "multi_hit"
    /\ skill.wait_time > TICK_RATE /\ skill.wait_time % TICK_RATE /= 0
    /\ T_ > 17

\* what the lookup of a symbol is said to return
ExpectedLookup(sym) ==
    LET name == skill.properties
        Holds(c) == c \in DOMAIN props /\ sym \in DOMAIN props[c]
        Value(levels) ==
            IF levels = NoFields THEN 0
            ELSE IF 1 \in DOMAIN levels THEN IntOf(levels[1])
            ELSE IntOf(levels[LowestLevel(levels)])
    IN  IF name = "empty" THEN 0
        ELSE IF Holds(name) THEN Value(props[name][sym])
        ELSE IF Holds(Suffix1(name)) THEN Value(props[Suffix1(name)][sym])
        ELSE 0

\* C10: the two lookups never fail; each returns the value at level 1, else
\* at the lowest present level, of the first candidate key (exact, then
\* key + "_1") holding the symbol, and 0 when no candidate holds the symbol
\* or the symbol has no level.
C10_LookupTotal ==
    pc /= "start"
    => /\ pc = "done" /\ err = "none"
       /\ cooldown_tick = ExpectedLookup("skill_mintimepercast_v")
       /\ state_time_tick = ExpectedLookup("skill_statetime")

\* C11: in a multi_hit timeline every interval phase has start <= end
\* (cast_delay, hit_stop, recovery_lock, combo_window) and the intervals
\* follow one another: hit_stop.end <= recovery_lock.start,
\* recovery_lock.end < combo_window.start and combo_window.end < idle.tick.
C11_MultiHitWellFormed ==
    (Done /\ entry.type = "multi_hit")
    => /\ \A p \in {"cast_delay", "hit_stop", "recovery_lock", "combo_window"} :
             Phases[p].start <= Phases[p].end
       /\ Phases.hit_stop.end <= Phases.recovery_lock.start
       /\ Phases.recovery_lock.end < Phases.combo_window.start
       /\ Phases.combo_window.end < Phases.idle.tick

====
